---- MODULE Spec2Model ----
(***************************************************************************)
(* Model of pr_agent/git_grep_agent.py: GitGrepAgent.run_git_grep and      *)
(* GitGrepAgent.next_turn.  Strings that the code takes apart (the search  *)
(* tool's standard output, file paths, matched lines) are sequences of     *)
(* one-character strings; opaque strings (queries, symbol names) are TLA+  *)
(* strings.  A file is represented by what open() and ast.parse() make of  *)
(* it: unreadable, a syntax error, or the module's syntax tree.            *)
(***************************************************************************)
EXTENDS Integers, Sequences, FiniteSets, TLC

VARIABLES
    pc,               \* position of next_turn
    request,          \* argument `request`: a str or a Prompt carrying a payload
    request_context,  \* argument `request_context`: a dict
    git,              \* how the external `git grep` behaves in this environment
    stdout,           \* what `git grep -n` writes to its standard output
    files,            \* the working tree: what open()/ast.parse() find at each path
    query,            \* local `query`
    search_query,     \* local `search_query`
    grep_results,     \* local `grep_results`
    allSections,      \* local `allSections` (a CodeSections object)
    i,                \* position of the for loop in grep_results
    extracted,        \* paths on which the try block of lines 120-130 ran, in order
    events,           \* events yielded so far
    exc               \* the exception that left next_turn, or "none"

vars == <<pc, request, request_context, git, stdout, files, query, search_query,
          grep_results, allSections, i, extracted, events, exc>>

----------------------------------------------------------------------------
(* Bounds of the model *)

MaxMatches == 3      \* lines of search output in the aggregation runs
MaxStdoutLen == 6    \* characters of search output in the parsing runs
MaxBody == 2         \* top-level statements of a module in the extraction runs

(* Program constants *)

MaxSplit == 2          \* line.split(":", 2)
MinParts == 3          \* len(parts) >= 3
SimilarityScore == 1   \* similarity_score=1.0

----------------------------------------------------------------------------
(* Values *)

None == "None"
LF == "\n"
FF == "\f"
Colon == ":"

\* str.splitlines() ends a line at "\n" and also at "\f" (and at the other
\* separators "\v", "\x1c"..., which "\f" stands for here).
LineBoundaries == {LF, FF}

EmptyDict == <<>>
DictGet(d, k) == IF k \in DOMAIN d THEN d[k] ELSE None

PathA == <<"a", ".", "p", "y">>
PathB == <<"b", ".", "p", "y">>
PathN == <<"n", ".", "m", "d">>
PySuffix == <<".", "p", "y">>

Queries == {"foo", "bar"}

Requests ==
    [isPrompt : BOOLEAN, payload : Queries]

Contexts ==
    {EmptyDict} \cup {[query |-> q] : q \in Queries}

GitBehaviours == {"ok", "missing", "not_a_repo"}

----------------------------------------------------------------------------
(* Syntax trees, as ast.parse returns them *)

Node(t, n, b) == [type |-> t, name |-> n, body |-> b]

FooDef == Node("FunctionDef", "foo", <<Node("FunctionDef", "inner", <<>>)>>)
BarDef == Node("ClassDef", "Bar", <<Node("FunctionDef", "method", <<>>)>>)
FetchDef == Node("AsyncFunctionDef", "fetch", <<>>)
AssignStmt == Node("Assign", "", <<>>)
IfStmt == Node("If", "", <<Node("FunctionDef", "guarded", <<>>)>>)

TopLevelNodes == {FooDef, BarDef, FetchDef, AssignStmt, IfStmt}

Unreadable == [readable |-> FALSE, valid |-> FALSE, body |-> <<>>]
BadSyntax == [readable |-> TRUE, valid |-> FALSE, body |-> <<>>]
Module(b) == [readable |-> TRUE, valid |-> TRUE, body |-> b]

Bodies(n) == UNION {[1..k -> TopLevelNodes] : k \in 0..n}

----------------------------------------------------------------------------
(* str methods used by the code *)

RECURSIVE SplitLinesFrom(_, _, _)
\* str.splitlines(): scan s from position k, cur being the line read so far.
\* A boundary ends the current line (possibly empty); text after the last
\* boundary is a last line only when it is not empty.
SplitLinesFrom(s, k, cur) ==
    IF k > Len(s)
    THEN IF cur = <<>> THEN <<>> ELSE <<cur>>
    ELSE IF s[k] \in LineBoundaries
         THEN <<cur>> \o SplitLinesFrom(s, k + 1, <<>>)
         ELSE SplitLinesFrom(s, k + 1, Append(cur, s[k]))

SplitLines(s) == SplitLinesFrom(s, 1, <<>>)

\* position of the first sep in s, 0 when there is none
Find(s, sep) ==
    IF \E k \in 1..Len(s) : s[k] = sep
    THEN CHOOSE k \in 1..Len(s) : s[k] = sep /\ \A j \in 1..(k - 1) : s[j] # sep
    ELSE 0

RECURSIVE Split(_, _, _)
\* str.split(sep, maxsplit): at most maxsplit cuts, leftmost first
Split(s, sep, maxsplit) ==
    IF maxsplit = 0 \/ Find(s, sep) = 0
    THEN <<s>>
    ELSE <<SubSeq(s, 1, Find(s, sep) - 1)>>
         \o Split(SubSeq(s, Find(s, sep) + 1, Len(s)), sep, maxsplit - 1)

\* str.endswith(suffix)
EndsWith(s, suffix) ==
    /\ Len(s) >= Len(suffix)
    /\ SubSeq(s, Len(s) - Len(suffix) + 1, Len(s)) = suffix

----------------------------------------------------------------------------
(* run_git_grep *)

\* subprocess.run(["git", "grep", "-n", query], capture_output=True, text=True,
\* check=False): raises when an argument is not a string or the binary is
\* missing; otherwise returns whatever git wrote, whatever its exit status.
SubprocessRun(q, g, out) ==
    IF q = None THEN [raised |-> "TypeError", stdout |-> <<>>]
    ELSE IF g = "missing" THEN [raised |-> "FileNotFoundError", stdout |-> <<>>]
    ELSE [raised |-> "none", stdout |-> out]

\* the split without its limit: every colon cuts
ParseLine_NoMaxSplit(matches, line) ==
    IF line = <<>> THEN matches
    ELSE LET parts == Split(line, Colon, -1) IN
         IF Len(parts) >= MinParts
         THEN Append(matches, <<parts[1], parts[3]>>)
         ELSE matches

\* one pass of the loop body of lines 79-84 over `line`
ParseLine(matches, line) ==
    IF line = <<>> THEN matches
    ELSE LET parts == Split(line, Colon, MaxSplit) IN
         IF Len(parts) >= MinParts
         THEN Append(matches, <<parts[1], parts[3]>>)
         ELSE matches

RECURSIVE ParseLines(_, _, _)
\* the for loop of lines 78-84
ParseLines(matches, lines, k) ==
    IF k > Len(lines) THEN matches
    ELSE ParseLines(ParseLine(matches, lines[k]), lines, k + 1)

\* a handler for the missing binary alone
GrepHandlerCatches_OnlyMissingBinary(e) == e = "FileNotFoundError"

\* `except Exception` (line 86): every exception the call can raise is one
GrepHandlerCatches(e) == TRUE

\* run_git_grep(query): [raised, matches]
RunGitGrep(q, g, out) ==
    LET result == SubprocessRun(q, g, out) IN
    IF result.raised # "none"
    THEN IF GrepHandlerCatches(result.raised)
         THEN [raised |-> "none", matches |-> <<>>]
         ELSE [raised |-> result.raised, matches |-> <<>>]
    ELSE [raised |-> "none",
          matches |-> ParseLines(<<>>, SplitLines(result.stdout), 1)]

----------------------------------------------------------------------------
(* The body of the aggregation loop *)

\* a str compared with a CodeSection (line 118): never equal
StrEqualsSection(file_path, sec) == FALSE

\* `file_path not in allSections.sections` (line 118)
NotInSections(file_path, secs) ==
    ~ \E k \in 1..Len(secs) : StrEqualsSection(file_path, secs[k])

\* isinstance(n, ast.ClassDef) or isinstance(n, ast.FunctionDef) (line 126)
IsCollected(n) == n.type = "ClassDef" \/ n.type = "FunctionDef"

\* [n.name for n in node.body if ...] (lines 124-127)
DefNames(body) ==
    LET kept == SelectSeq(body, IsCollected) IN
    [k \in 1..Len(kept) |-> kept[k].name]

\* what is found at file_path: a path outside the tree cannot be opened
FileAt(fs, file_path) ==
    IF file_path \in DOMAIN fs THEN fs[file_path] ELSE Unreadable

\* the try block (lines 121-127): [raised, defs]
TryExtract(file_path, fs) ==
    IF ~ EndsWith(file_path, PySuffix) THEN [raised |-> "none", defs |-> <<>>]
    ELSE IF ~ FileAt(fs, file_path).readable THEN [raised |-> "OSError", defs |-> <<>>]
    ELSE IF ~ FileAt(fs, file_path).valid THEN [raised |-> "SyntaxError", defs |-> <<>>]
    ELSE [raised |-> "none", defs |-> DefNames(FileAt(fs, file_path).body)]

\* a handler for open() failures alone
ExtractHandlerCatches_OnlyOSError(e) == e = "OSError"

\* the bare `except:` (line 129) catches everything
ExtractHandlerCatches(e) == TRUE

\* lines 119-130: [raised, defs]
Extract(file_path, fs) ==
    LET r == TryExtract(file_path, fs) IN
    IF r.raised = "none" THEN r
    ELSE IF ExtractHandlerCatches(r.raised)
         THEN [raised |-> "none", defs |-> <<>>]
         ELSE r

\* the second check written like the first one, a str against the sections
AnySamePath_ByMembership(file_path, secs) ==
    ~ NotInSections(file_path, secs)

\* any(sec.file_path == file_path for sec in allSections.sections) (line 133)
AnySamePath(file_path, secs) ==
    \E k \in 1..Len(secs) : secs[k].file_path = file_path

\* CodeSection(...) (lines 134-139)
CodeSection(matched_line, file_path, included_defs) ==
    [search_result |-> matched_line,
     file_path |-> file_path,
     included_defs |-> included_defs,
     similarity_score |-> SimilarityScore]

\* a later match overwrites the section of its file
AddSection_LastWins(secs, file_path, matched_line, included_defs) ==
    IF ~ \E k \in 1..Len(secs) : secs[k].file_path = file_path
    THEN Append(secs, CodeSection(matched_line, file_path, included_defs))
    ELSE [k \in 1..Len(secs) |->
            IF secs[k].file_path = file_path
            THEN CodeSection(matched_line, file_path, included_defs)
            ELSE secs[k]]

\* a new section goes to the front
AddSection_Prepend(secs, file_path, matched_line, included_defs) ==
    IF ~ \E k \in 1..Len(secs) : secs[k].file_path = file_path
    THEN <<CodeSection(matched_line, file_path, included_defs)>> \o secs
    ELSE secs

\* lines 133-139: the sections after the guarded append
AddSection(secs, file_path, matched_line, included_defs) ==
    IF ~ AnySamePath(file_path, secs)
    THEN Append(secs, CodeSection(matched_line, file_path, included_defs))
    ELSE secs

\* one pass of the loop body (lines 118-139) for the match m:
\* [raised, sections, ran] where ran says whether the try block was entered
ProcessMatch(secs, m, fs) ==
    IF NotInSections(m[1], secs)
    THEN LET r == Extract(m[1], fs) IN
         IF r.raised # "none"
         THEN [raised |-> r.raised, sections |-> secs, ran |-> TRUE]
         ELSE [raised |-> "none",
               sections |-> AddSection(secs, m[1], m[2], r.defs),
               ran |-> TRUE]
    ELSE [raised |-> "none", sections |-> secs, ran |-> FALSE]

RECURSIVE Aggregate(_, _, _, _)
\* the whole loop (lines 117-139) from match k on: [raised, sections]
Aggregate(secs, matches, k, fs) ==
    IF k > Len(matches) THEN [raised |-> "none", sections |-> secs]
    ELSE LET r == ProcessMatch(secs, matches[k], fs) IN
         IF r.raised # "none"
         THEN [raised |-> r.raised, sections |-> secs]
         ELSE Aggregate(r.sections, matches, k + 1, fs)

\* CodeSections(sections=[], search_query=...) (line 114): search_query is a
\* required str field, so None fails validation
ValidSearchQuery(q) == q # None

----------------------------------------------------------------------------
(* Initial states: the arguments of one call of next_turn and its environment *)

\* one line of `git grep -n` output: path:line-number:content, newline-ended
GrepLine(path, lineno, content) ==
    path \o <<Colon>> \o lineno \o <<Colon>> \o content \o <<LF>>

MatchedTexts == {<<"x">>, <<"y", Colon, "z">>}

GrepLines ==
    {GrepLine(p, <<"7">>, c) : p \in {PathA, PathB}, c \in MatchedTexts}
        \cup {GrepLine(PathN, <<"1", "2">>, <<"x">>)}

RECURSIVE Outputs(_)
\* the outputs of at most n lines
Outputs(n) ==
    IF n = 0 THEN {<<>>}
    ELSE Outputs(n - 1) \cup {o \o l : o \in Outputs(n - 1), l \in GrepLines}

Alphabet == {"a", Colon, LF, FF}

RawOutputs == UNION {[1..n -> Alphabet] : n \in 0..MaxStdoutLen}

PyFileStates == {Unreadable, BadSyntax, Module(<<FooDef, BarDef>>)}

Tree(a, b) ==
    (PathA :> a) @@ (PathB :> b) @@ (PathN :> BadSyntax)

NoCollection == [sections |-> <<>>, search_query |-> None]

Locals ==
    /\ pc = "start"
    /\ query = None
    /\ search_query = None
    /\ grep_results = <<>>
    /\ allSections = NoCollection
    /\ i = 0
    /\ extracted = <<>>
    /\ events = <<>>
    /\ exc = "none"

\* runs of the aggregation: several matches over a small tree
InitAggregate ==
    /\ request \in [isPrompt : BOOLEAN, payload : {"foo"}]
    /\ request_context \in Contexts
    /\ git \in GitBehaviours
    /\ stdout \in (IF git = "ok" THEN Outputs(MaxMatches) ELSE {<<>>})
    /\ files \in {Tree(a, b) : a \in PyFileStates,
                               b \in {BadSyntax, Module(<<FetchDef, FooDef>>)}}
    /\ Locals

\* runs of the parser: arbitrary short outputs
InitParse ==
    /\ request = [isPrompt |-> FALSE, payload |-> "foo"]
    /\ request_context = [query |-> "foo"]
    /\ git = "ok"
    /\ stdout \in RawOutputs
    /\ files = Tree(Unreadable, Unreadable)
    /\ Locals

\* runs of the extraction: one match in a module of any shape
InitExtract ==
    /\ request \in Requests
    /\ request_context = [query |-> "bar"]
    /\ git = "ok"
    /\ stdout = GrepLine(PathA, <<"7">>, <<"x">>)
    /\ files \in {Tree(Module(b), BadSyntax) : b \in Bodies(MaxBody)}
    /\ Locals

Init == InitAggregate \/ InitParse \/ InitExtract

----------------------------------------------------------------------------
(* next_turn, step by step *)

\* lines 105-106: take the query from the request, yield PromptStarted
StartTurn ==
    /\ pc = "start"
    /\ query' = request.payload
    /\ events' = Append(events, [type |-> "PromptStarted", payload |-> request.payload])
    /\ pc' = "started"
    /\ UNCHANGED <<request, request_context, git, stdout, files, search_query,
                   grep_results, allSections, i, extracted, exc>>

\* lines 109-110: read the search query from the context and run git grep
CallRunGitGrep ==
    /\ pc = "started"
    /\ search_query' = DictGet(request_context, "query")
    /\ LET r == RunGitGrep(DictGet(request_context, "query"), git, stdout) IN
       IF r.raised # "none"
       THEN /\ exc' = r.raised
            /\ pc' = "raised"
            /\ UNCHANGED grep_results
       ELSE /\ grep_results' = r.matches
            /\ pc' = "searched"
            /\ UNCHANGED exc
    /\ UNCHANGED <<request, request_context, git, stdout, files, query,
                   allSections, i, extracted, events>>

\* line 114: build the empty collection; pydantic validates search_query
NewCodeSections ==
    /\ pc = "searched"
    /\ IF ValidSearchQuery(search_query)
       THEN /\ allSections' = [sections |-> <<>>, search_query |-> search_query]
            /\ i' = 1
            /\ pc' = "loop"
            /\ UNCHANGED exc
       ELSE /\ exc' = "ValidationError"
            /\ pc' = "raised"
            /\ UNCHANGED <<allSections, i>>
    /\ UNCHANGED <<request, request_context, git, stdout, files, query,
                   search_query, grep_results, extracted, events>>

\* lines 117-139: one pass of the loop body
LoopBody ==
    /\ pc = "loop"
    /\ i <= Len(grep_results)
    /\ LET r == ProcessMatch(allSections.sections, grep_results[i], files) IN
       /\ extracted' = IF r.ran THEN Append(extracted, grep_results[i][1])
                       ELSE extracted
       /\ IF r.raised # "none"
          THEN /\ exc' = r.raised
               /\ pc' = "raised"
               /\ UNCHANGED <<allSections, i>>
          ELSE /\ allSections' = [allSections EXCEPT !.sections = r.sections]
               /\ i' = i + 1
               /\ UNCHANGED <<pc, exc>>
    /\ UNCHANGED <<request, request_context, git, stdout, files, query,
                   search_query, grep_results, events>>

\* line 141: the loop is over, yield TurnEnd with the collection
EndTurn ==
    /\ pc = "loop"
    /\ i > Len(grep_results)
    /\ events' = Append(events, [type |-> "TurnEnd", content |-> allSections])
    /\ pc' = "done"
    /\ UNCHANGED <<request, request_context, git, stdout, files, query,
                   search_query, grep_results, allSections, i, extracted, exc>>

Next ==
    \/ StartTurn
    \/ CallRunGitGrep
    \/ NewCodeSections
    \/ LoopBody
    \/ EndTurn

Spec == Init /\ [][Next]_vars

----------------------------------------------------------------------------
(* Vocabulary of the properties *)

Sections == allSections.sections

SectionPaths == [k \in 1..Len(Sections) |-> Sections[k].file_path]

MatchPaths == {grep_results[k][1] : k \in 1..Len(grep_results)}

\* the position of the first match reported for path p
FirstMatch(p) ==
    CHOOSE k \in 1..Len(grep_results) :
        /\ grep_results[k][1] = p
        /\ \A j \in 1..(k - 1) : grep_results[j][1] # p

\* some file is reported by two matches with different lines
RepeatedFile ==
    \E j, k \in 1..Len(grep_results) :
        /\ j < k
        /\ grep_results[j][1] = grep_results[k][1]
        /\ grep_results[j][2] # grep_results[k][2]

\* the search ran: git was invoked with a string and answered
SearchRan == search_query # None /\ git # "missing"

AfterSearch == pc \in {"searched", "loop", "done"}

----------------------------------------------------------------------------
(* C1 *)

\* C1: at every point during and after the aggregation loop, no two
\* elements of the collection's sections share a file_path.
C1_NoDuplicatePaths ==
    \A j, k \in 1..Len(Sections) :
        j # k => Sections[j].file_path # Sections[k].file_path

\* a file reported twice has gone through the whole loop
C1_Witness ==
    /\ pc = "done"
    /\ RepeatedFile
    /\ Len(Sections) >= 2

----------------------------------------------------------------------------
(* C2 *)

\* C2: next_turn never raises: for every request, also when request_context
\* carries no "query" key, no exception leaves the turn.
C2_NeverRaises == pc # "raised"

----------------------------------------------------------------------------
(* C3 *)

\* C3: a query that matches nothing returns a collection with empty sections
\* and search_query equal to the query supplied as the request.
C3_EmptyResultCarriesRequest ==
    (pc = "done" /\ git = "ok" /\ stdout = <<>>)
        => /\ Sections = <<>>
           /\ allSections.search_query = request.payload

----------------------------------------------------------------------------
(* C4 *)

\* C4: the section of a file has search_result equal to the matched line of
\* the first match reported for that file, at every point of the loop and
\* after it; later matches of the file leave it alone.
C4_FirstMatchWins ==
    \A k \in 1..Len(Sections) :
        /\ Sections[k].file_path \in MatchPaths
        /\ Sections[k].search_result
               = grep_results[FirstMatch(Sections[k].file_path)][2]

\* the loop has passed a second, different match of a file
C4_Witness ==
    /\ pc = "done"
    /\ \E j, k \in 1..Len(grep_results), n \in 1..Len(Sections) :
          /\ j < k
          /\ grep_results[j][1] = Sections[n].file_path
          /\ grep_results[k][1] = Sections[n].file_path
          /\ grep_results[k][2] # Sections[n].search_result

----------------------------------------------------------------------------
(* C5 *)

\* C5: run_git_grep never raises to its caller: when the search facility
\* cannot be invoked (binary missing, non-string query) or finds no
\* repository, the call returns an empty match sequence.
C5_GrepNeverRaises ==
    /\ exc \notin {"TypeError", "FileNotFoundError"}
    /\ (AfterSearch /\ (search_query = None \/ git # "ok"))
           => grep_results = <<>>
    /\ (pc = "raised" => exc = "ValidationError")

\* the call has returned although the binary is missing
C5_Witness ==
    /\ pc = "searched"
    /\ search_query # None
    /\ git = "missing"
    /\ grep_results = <<>>

----------------------------------------------------------------------------
(* C6 *)

\* extraction fails for the path p in the tree fs
ExtractionFails(p, fs) ==
    \/ ~ EndsWith(p, PySuffix)
    \/ ~ FileAt(fs, p).readable
    \/ ~ FileAt(fs, p).valid

Others(secs, p) == SelectSeq(secs, LAMBDA sec : sec.file_path # p)

\* C6: a per-file extraction failure is recovered locally: no exception of
\* the extraction leaves the loop, the failing file still gets a section,
\* with empty included_defs, and the sections of the other files are those
\* of the same run over a tree where the file is sound.
C6_FailureIsLocal ==
    /\ exc \notin {"OSError", "SyntaxError"}
    /\ pc = "done" =>
          /\ \A p \in MatchPaths : p \in {SectionPaths[k] : k \in 1..Len(Sections)}
          /\ \A k \in 1..Len(Sections) :
                ExtractionFails(Sections[k].file_path, files)
                    => Sections[k].included_defs = <<>>
          /\ \A p \in DOMAIN files :
                (EndsWith(p, PySuffix) /\ ExtractionFails(p, files))
                    => Others(Sections, p)
                        = Others(Aggregate(<<>>, grep_results, 1,
                                   [files EXCEPT ![p] = Module(<<FooDef, BarDef>>)]
                                 ).sections, p)

\* a file with a syntax error, a sound file and a non-Python file were
\* matched in one run
C6_Witness ==
    /\ pc = "done"
    /\ \E j, k \in 1..Len(Sections) :
          /\ EndsWith(Sections[j].file_path, PySuffix)
          /\ ~ FileAt(files, Sections[j].file_path).valid
          /\ FileAt(files, Sections[j].file_path).readable
          /\ Sections[j].included_defs = <<>>
          /\ Sections[k].included_defs # <<>>
    /\ \E k \in 1..Len(Sections) : ~ EndsWith(Sections[k].file_path, PySuffix)

----------------------------------------------------------------------------
(* C7 *)

----------------------------------------------------------------------------
(* C8 *)

\* C8: the file_path values of the finished collection's sections are the
\* distinct file paths of the raw matches in first-occurrence order.
C8_FirstOccurrenceOrder ==
    pc = "done" =>
        /\ {SectionPaths[k] : k \in 1..Len(Sections)} = MatchPaths
        /\ Len(Sections) = Cardinality(MatchPaths)
        /\ \A j, k \in 1..Len(Sections) :
              j < k => FirstMatch(SectionPaths[j]) < FirstMatch(SectionPaths[k])
        /\ events[Len(events)] = [type |-> "TurnEnd", content |-> allSections]

\* three matches, the first file reported again after the second file
C8_Witness ==
    /\ pc = "done"
    /\ Len(grep_results) >= 3
    /\ grep_results[1][1] = grep_results[3][1]
    /\ grep_results[1][1] # grep_results[2][1]
    /\ Len(Sections) = 2

----------------------------------------------------------------------------
(* C9 *)

ColonCount(line) == Cardinality({k \in 1..Len(line) : line[k] = Colon})

HasThreeParts(line) == ColonCount(line) >= 2

\* pair is (path, content) of line = path:line-number:content, path and
\* line-number being free of colons
IsPathAndContent(pair, line) ==
    \E a, b \in 1..Len(line) :
        /\ a < b
        /\ line[a] = Colon
        /\ line[b] = Colon
        /\ \A k \in 1..(b - 1) : k # a => line[k] # Colon
        /\ pair[1] = SubSeq(line, 1, a - 1)
        /\ pair[2] = SubSeq(line, b + 1, Len(line))

ThreePartLines == SelectSeq(SplitLines(stdout), HasThreeParts)

----------------------------------------------------------------------------
(* C10 *)

\* a function or class definition statement
IsDefinition(n) == n.type \in {"FunctionDef", "AsyncFunctionDef", "ClassDef"}

TopLevelDefinitions(body) ==
    LET kept == SelectSeq(body, IsDefinition) IN
    [k \in 1..Len(kept) |-> kept[k].name]

\* C10: for a parsable .py file, included_defs is the names of all function
\* and class definitions directly in the module body, in source order, none
\* nested and none omitted.
C10_AllTopLevelDefinitions ==
    pc = "done" =>
        \A k \in 1..Len(Sections) :
            (~ ExtractionFails(Sections[k].file_path, files))
                => Sections[k].included_defs
                    = TopLevelDefinitions(FileAt(files, Sections[k].file_path).body)

====
